---- MODULE Spec2Model ----
(***************************************************************************)
(* A model of the qudit state-transition search library.                   *)
(*                                                                         *)
(*   statetrans.py           state_search_via_dijkstras: a best-first      *)
(*                           search over an implicit graph, driven by a    *)
(*                           heapq frontier of heapnode objects and a      *)
(*                           visited dictionary.                           *)
(*   qutrit_ghz_example.py   the transitions x and subswap on tuples of    *)
(*                           digit strings, and the example's inputs.      *)
(*                                                                         *)
(* The four inputs of a search (init_state, transitions, success, cost)    *)
(* are variables that Init draws from bounded families and no action       *)
(* changes.  The search itself is deterministic: one action per step of    *)
(* the function body.                                                      *)
(***************************************************************************)
EXTENDS Integers, Sequences, FiniteSets, TLC

VARIABLES
    init_state,   \* argument init_state
    transitions,  \* argument transitions: a sequence of [name, fn] in dict order
    success,      \* argument success: a description of the predicate
    cost,         \* argument cost: a description of the path cost function
    visited,      \* local visited: a function from states to paths
    frontier,     \* local frontier: the list heapq keeps as a binary heap
    node,         \* local node: the heapnode popped last
    idx,          \* position of the for loop in transitions.items()
    pc,           \* "idle", "loop", "expand", "returned", "raised"
    result,       \* the path returned
    log,          \* history: the calls and heap operations of this search
    calls,        \* number of calls of state_search_via_dijkstras so far
    first,        \* history: the log and outcome of the first call
    ex_origin,    \* a state of the example domain before any transition
    ex_state,     \* that state after the transitions in ex_applied
    ex_applied    \* the transitions applied to ex_origin, in order

vars == <<init_state, transitions, success, cost, visited, frontier, node,
          idx, pc, result, log, calls, first, ex_origin, ex_state, ex_applied>>

inputVars == <<init_state, transitions, success, cost>>
searchVars == <<visited, frontier, node, idx, pc, result, log, calls, first>>
exVars == <<ex_origin, ex_state, ex_applied>>

(***************************************************************************)
(* Bounds of the input families.                                           *)
(***************************************************************************)
NumStates == 4
HeavyWeight == 10
MaxPathLen == 4
MaxTuple == 2

\* The states of the abstract search problems: 0 .. NumStates-1.
AbsStates == 0 .. (NumStates - 1)

\* The identifiers of the abstract transition tables, in dict order.
AbsNames == <<"a", "b">>

(***************************************************************************)
(* Digit strings.  A Python str is a sequence of one-character strings;    *)
(* a State of the example is a tuple of such strings.                      *)
(***************************************************************************)
Digits == <<"0", "1", "2", "3">>

\* str(n) for a one-digit n
Str(n) == <<Digits[n + 1]>>

\* string[lo:hi] with 0 <= lo, as Python slices: clipped to the string
Slice(string, lo, hi) ==
    LET h == IF hi > Len(string) THEN Len(string) ELSE hi
    IN  IF lo >= h THEN <<>> ELSE SubSeq(string, lo + 1, h)

\* Faulty variant of x_string: the digit low_radix is raised, the digit
\* high_radix is not lowered.
x_string_oneway(string, qubit, low_radix) ==
    LET high_radix == low_radix + 1
        at == Slice(string, qubit, qubit + 1)
        mid == IF at = Str(low_radix) THEN Str(high_radix) ELSE at
    IN  Slice(string, 0, qubit) \o mid \o Slice(string, qubit + 1, Len(string))

\* Faulty variant of x_string: the digits after qubit are dropped.
x_string_cut(string, qubit, low_radix) ==
    LET high_radix == low_radix + 1
        at == Slice(string, qubit, qubit + 1)
        mid == IF at = Str(high_radix) THEN Str(low_radix)
               ELSE IF at = Str(low_radix) THEN Str(high_radix)
               ELSE at
    IN  Slice(string, 0, qubit) \o mid

x_string(string, qubit, low_radix) ==
    LET high_radix == low_radix + 1
        low_radix_str == Str(low_radix)
        high_radix_str == Str(high_radix)
        at == Slice(string, qubit, qubit + 1)
        head == Slice(string, 0, qubit)
        mid == IF at = high_radix_str THEN low_radix_str
               ELSE IF at = low_radix_str THEN high_radix_str
               ELSE at
    IN  head \o mid \o Slice(string, qubit + 1, Len(string))

x(state, qubit, low_radix) ==
    [i \in DOMAIN state |-> x_string(state[i], qubit, low_radix)]

\* Faulty variant of subswap_string: the pair of digits is never exchanged.
subswap_string_none(string, low_qubit, low_radix) == string

subswap_string(string, low_qubit, low_radix) ==
    LET high_radix == low_radix + 1
        low_radix_str == Str(low_radix) \o Str(low_radix)
        high_radix_str == Str(high_radix) \o Str(high_radix)
        at == Slice(string, low_qubit, low_qubit + 2)
        head == Slice(string, 0, low_qubit)
        mid == IF at = low_radix_str THEN high_radix_str
               ELSE IF at = high_radix_str THEN low_radix_str
               ELSE at
    IN  head \o mid \o Slice(string, low_qubit + 2, Len(string))

subswap(state, low_qubit, low_radix) ==
    [i \in DOMAIN state |-> subswap_string(state[i], low_qubit, low_radix)]

(***************************************************************************)
(* The caller's functions.  A transition is described by a record fn:      *)
(*   [op |-> "x", qubit, low_radix]        partial(x, qubit=, low_radix=)  *)
(*   [op |-> "subswap", low_qubit, low_radix]                              *)
(*   [op |-> "add", arg]     s |-> (s + arg) % NumStates   (abstract)      *)
(*   [op |-> "const", arg]   s |-> arg                     (abstract)      *)
(***************************************************************************)
Transition(fn, state) ==
    CASE fn.op = "x" -> x(state, fn.qubit, fn.low_radix)
      [] fn.op = "subswap" -> subswap(state, fn.low_qubit, fn.low_radix)
      [] fn.op = "add" -> (state + fn.arg) % NumStates
      [] fn.op = "const" -> fn.arg

\* success(state): "member": the state is one of success.of (abstract);
\* "contains": every string of success.of is in the state (the example)
Success(state) ==
    CASE success.kind = "member" -> state \in success.of
      [] success.kind = "contains" ->
            \A s \in success.of : \E i \in DOMAIN state : state[i] = s

\* name.startswith('subswap'), for the identifiers in use
StartsWithSubswap(name) == name \in {"subswap12_01", "subswap12_12"}

RECURSIVE SumCost(_, _), MaxCost(_, _), SurchargeCost(_, _)
SumCost(w, path) ==
    IF path = <<>> THEN 0 ELSE w[Head(path)] + SumCost(w, Tail(path))

MaxCost(w, path) ==
    IF path = <<>> THEN 0
    ELSE LET m == MaxCost(w, Tail(path))
         IN  IF w[Head(path)] > m THEN w[Head(path)] ELSE m

\* the weight of each identifier, but HeavyWeight for an identifier that
\* repeats the one before it
SurchargeCost(w, path) ==
    IF Len(path) = 0 THEN 0
    ELSE LET n == Len(path)
             front == SubSeq(path, 1, n - 1)
             step == IF n > 1 /\ path[n] = path[n - 1]
                     THEN HeavyWeight ELSE w[path[n]]
         IN  SurchargeCost(w, front) + step

\* cost(path) for a cost function c
CostOf(c, path) ==
    CASE c.kind = "sum" -> SumCost(c.w, path)
      [] c.kind = "max" -> MaxCost(c.w, path)
      [] c.kind = "surcharge" -> SurchargeCost(c.w, path)
      [] c.kind = "credit" -> 0 - SumCost(c.w, path)
      [] c.kind = "example" ->
            Len(SelectSeq(path, StartsWithSubswap)) * 10 + Len(path)

\* Faulty variant of Cost: the cost of the path without its last identifier.
Cost_OfParent(path) ==
    CostOf(cost, IF path = <<>> THEN path ELSE SubSeq(path, 1, Len(path) - 1))

Cost(path) == CostOf(cost, path)

(***************************************************************************)
(* heapnode and heapq.                                                     *)
(***************************************************************************)
heapnode(state, path, c) == [state |-> state, path |-> path, cost |-> c]

\* Faulty variant of lt: the comparison reversed.
lt_reversed(self, other) == self.cost > other.cost

\* heapnode.__lt__
lt(self, other) == self.cost < other.cost

\* The one element of a one-element set.  The loops below pass the list and
\* the position of the next round through it, as values bound by a set
\* constructor: each round then computes them once.
Only(S) == CHOOSE r \in S : TRUE

\* heapq._siftdown, positions counted from 0 as in Python
RECURSIVE siftdown_loop(_, _, _, _)
siftdown_loop(heap, startpos, pos, newitem) ==
    IF pos > startpos
    THEN LET parentpos == (pos - 1) \div 2
             parent == heap[parentpos + 1]
         IN  IF lt(newitem, parent)
             THEN Only({siftdown_loop(h, startpos, p, newitem) :
                           h \in {[heap EXCEPT ![pos + 1] = parent]},
                           p \in {parentpos}})
             ELSE [heap EXCEPT ![pos + 1] = newitem]
    ELSE [heap EXCEPT ![pos + 1] = newitem]

siftdown(heap, startpos, pos) ==
    Only({siftdown_loop(h, startpos, p, h[p + 1]) : h \in {heap}, p \in {pos}})

\* Faulty variant of siftup_loop: the left child moves up, smaller or not.
RECURSIVE siftup_loop_left(_, _, _)
siftup_loop_left(heap, pos, newitem) ==
    LET endpos == Len(heap)
        childpos == 2 * pos + 1
    IN  IF childpos < endpos
        THEN Only({siftup_loop_left(h, childpos, newitem) :
                      h \in {[heap EXCEPT ![pos + 1] = heap[childpos + 1]]}})
        ELSE <<[heap EXCEPT ![pos + 1] = newitem], pos>>

\* heapq._siftup: move the smaller child up until a leaf, then sift down
RECURSIVE siftup_loop(_, _, _)
siftup_loop(heap, pos, newitem) ==
    LET endpos == Len(heap)
        childpos == 2 * pos + 1
        rightpos == childpos + 1
    IN  IF childpos < endpos
        THEN LET c == IF rightpos < endpos
                         /\ ~lt(heap[childpos + 1], heap[rightpos + 1])
                      THEN rightpos ELSE childpos
             IN  Only({siftup_loop(h, p, newitem) :
                          h \in {[heap EXCEPT ![pos + 1] = heap[c + 1]]},
                          p \in {c}})
        ELSE <<[heap EXCEPT ![pos + 1] = newitem], pos>>

siftup(heap, pos) ==
    Only({siftdown(r[1], pos, r[2]) :
            r \in {siftup_loop(heap, pos, heap[pos + 1])}})

\* Faulty variant of heappush: the item is appended and not sifted.
heappush_unsifted(heap, item) == Append(heap, item)

\* Faulty variant of heappush: an item equal (by cost) to one in the heap is
\* taken to be in the heap already.
heappush_unless_equal(heap, item) ==
    IF \E i \in DOMAIN heap : heap[i].cost = item.cost
    THEN heap
    ELSE siftdown(Append(heap, item), 0, Len(heap))

heappush(heap, item) ==
    siftdown(Append(heap, item), 0, Len(heap))

\* Faulty variant of heappop: the last item of the list is returned.
heappop_last(heap) ==
    <<heap[Len(heap)], SubSeq(heap, 1, Len(heap) - 1)>>

\* heapq.heappop: <<the item returned, the heap left>>
heappop(heap) ==
    LET lastelt == heap[Len(heap)]
        rest == SubSeq(heap, 1, Len(heap) - 1)
    IN  IF rest # <<>>
        THEN <<rest[1], siftup([rest EXCEPT ![1] = lastelt], 0)>>
        ELSE <<lastelt, rest>>

(***************************************************************************)
(* The history variable log: one entry per call of a caller's function     *)
(* and per heap or visited operation.                                      *)
(***************************************************************************)
Event(ev, arg) == [ev |-> ev, arg |-> arg]

\* The history is kept for the abstract searches.  The example's search is
\* some thousand steps long and runs without one.
History(l) == IF cost.kind = "example" THEN <<>> ELSE l

CountEv(l, ev) == Cardinality({i \in DOMAIN l : l[i].ev = ev})

\* node before the first pop: no node yet (a placeholder of a node's shape)
NoNode == heapnode(init_state, <<>>, 0)
NoFirst == [pc |-> "idle", result |-> <<>>, log |-> <<>>]

\* visited and frontier before the first call: nothing yet
NoVisited == [s \in {} |-> <<>>]
NoFrontier == <<>>

\* Faulty variant of EmptyVisited: the dictionary of the call before is kept.
StaleVisited == visited

\* visited = {}
EmptyVisited == [s \in {} |-> <<>>]

\* frontier = []
EmptyFrontier == <<>>

\* Faulty variant of VisitedPut: the entry is not kept.
VisitedPut_Lost(v, state, path) == v

\* visited[state] = path
VisitedPut(v, state, path) ==
    [s \in (DOMAIN v) \cup {state} |-> IF s = state THEN path ELSE v[s]]

(***************************************************************************)
(* state_search_via_dijkstras, one action per step.                        *)
(***************************************************************************)
\* lines 84-86: the locals, and the node of the empty path
StartSearch ==
    /\ LET c == Cost(<<>>)
           n == heapnode(init_state, <<>>, c)
       IN  /\ visited' = EmptyVisited
           /\ frontier' = heappush(EmptyFrontier, n)
           /\ log' = History(<<Event("cost", <<>>), Event("push", n)>>)
    /\ node' = NoNode
    /\ idx' = 0
    /\ pc' = "loop"
    /\ result' = <<>>
    /\ calls' = calls + 1

\* the first call of state_search_via_dijkstras
Call ==
    /\ pc = "idle"
    /\ calls = 0
    /\ StartSearch
    /\ UNCHANGED <<first, inputVars, exVars>>

\* a second call with the same arguments, once the first has ended
CallAgain ==
    /\ pc \in {"returned", "raised"}
    /\ calls = 1
    /\ first' = [pc |-> pc, result |-> result, log |-> log]
    /\ StartSearch
    /\ UNCHANGED <<inputVars, exVars>>

\* Faulty variant of Discard: visited takes the path of the dropped node.
Discard_Overwrite ==
    /\ pc = "loop"
    /\ Len(frontier) > 0
    /\ \E p \in {heappop(frontier)} :
           /\ p[1].state \in DOMAIN visited
           /\ node' = p[1]
           /\ frontier' = p[2]
           /\ visited' = VisitedPut(visited, p[1].state, p[1].path)
           /\ log' = History(log \o <<Event("pop", p[1]), Event("discard", p[1])>>)
    /\ UNCHANGED <<idx, pc, result, calls, first, inputVars, exVars>>

\* lines 88-92: a popped node whose state is in visited is dropped
Discard ==
    /\ pc = "loop"
    /\ Len(frontier) > 0
    /\ \E p \in {heappop(frontier)} :
           /\ p[1].state \in DOMAIN visited
           /\ node' = p[1]
           /\ frontier' = p[2]
           /\ log' = History(log \o <<Event("pop", p[1]), Event("discard", p[1])>>)
    /\ UNCHANGED <<visited, idx, pc, result, calls, first, inputVars, exVars>>

\* Faulty variant of Return: success is not looked at for the empty path.
Return_NotForEmptyPath ==
    /\ pc = "loop"
    /\ Len(frontier) > 0
    /\ \E p \in {heappop(frontier)} :
           /\ p[1].state \notin DOMAIN visited
           /\ p[1].path # <<>>
           /\ Success(p[1].state)
           /\ node' = p[1]
           /\ frontier' = p[2]
           /\ visited' = VisitedPut(visited, p[1].state, p[1].path)
           /\ result' = p[1].path
           /\ log' = History(log \o <<Event("pop", p[1]), Event("visit", p[1]),
                                      Event("success", p[1].state),
                                      Event("return", p[1].path)>>)
    /\ pc' = "returned"
    /\ UNCHANGED <<idx, calls, first, inputVars, exVars>>

\* lines 88-97: the popped node is recorded and its state is a success
Return ==
    /\ pc = "loop"
    /\ Len(frontier) > 0
    /\ \E p \in {heappop(frontier)} :
           /\ p[1].state \notin DOMAIN visited
           /\ Success(p[1].state)
           /\ node' = p[1]
           /\ frontier' = p[2]
           /\ visited' = VisitedPut(visited, p[1].state, p[1].path)
           /\ result' = p[1].path
           /\ log' = History(log \o <<Event("pop", p[1]), Event("visit", p[1]),
                                      Event("success", p[1].state),
                                      Event("return", p[1].path)>>)
    /\ pc' = "returned"
    /\ UNCHANGED <<idx, calls, first, inputVars, exVars>>

\* lines 88-99: the popped node is recorded and the for loop starts
\* Faulty variant of Visit: visited is not looked at after the pop.
Visit_Unchecked ==
    /\ pc = "loop"
    /\ Len(frontier) > 0
    /\ \E p \in {heappop(frontier)} :
           /\ ~Success(p[1].state)
           /\ node' = p[1]
           /\ frontier' = p[2]
           /\ visited' = VisitedPut(visited, p[1].state, p[1].path)
           /\ log' = History(log \o <<Event("pop", p[1]), Event("visit", p[1]),
                                      Event("success", p[1].state)>>)
    /\ idx' = 1
    /\ pc' = "expand"
    /\ UNCHANGED <<result, calls, first, inputVars, exVars>>

Visit ==
    /\ pc = "loop"
    /\ Len(frontier) > 0
    /\ \E p \in {heappop(frontier)} :
           /\ p[1].state \notin DOMAIN visited
           /\ ~Success(p[1].state)
           /\ node' = p[1]
           /\ frontier' = p[2]
           /\ visited' = VisitedPut(visited, p[1].state, p[1].path)
           /\ log' = History(log \o <<Event("pop", p[1]), Event("visit", p[1]),
                                      Event("success", p[1].state)>>)
    /\ idx' = 1
    /\ pc' = "expand"
    /\ UNCHANGED <<result, calls, first, inputVars, exVars>>

\* Faulty variant of NewPath: the identifier is not appended.
NewPath_Unextended(path, name) == path

\* new_path = node.path + (name,)
NewPath(path, name) == Append(path, name)

\* after the for loop's step idx: the next step, or back to the while test
AfterStep ==
    IF idx < Len(transitions)
    THEN idx' = idx + 1 /\ pc' = "expand"
    ELSE idx' = 0 /\ pc' = "loop"

\* Faulty variant of Push: visited is not looked at before the push.
Push_Unchecked ==
    /\ pc = "expand"
    /\ LET name == transitions[idx].name
           new_state == Transition(transitions[idx].fn, node.state)
           new_path == Append(node.path, name)
           n == heapnode(new_state, new_path, Cost(new_path))
       IN  /\ frontier' = heappush(frontier, n)
           /\ log' = History(log \o <<Event("transition", <<name, node.state>>),
                                      Event("cost", new_path), Event("push", n)>>)
    /\ IF idx < Len(transitions)
       THEN idx' = idx + 1 /\ pc' = "expand"
       ELSE idx' = 0 /\ pc' = "loop"
    /\ UNCHANGED <<visited, node, result, calls, first, inputVars, exVars>>

\* Faulty variant of Push: the search returns as soon as a success state is
\* generated.
Push_ReturnsSuccess ==
    /\ pc = "expand"
    /\ LET name == transitions[idx].name
           new_state == Transition(transitions[idx].fn, node.state)
           new_path == Append(node.path, name)
           n == heapnode(new_state, new_path, Cost(new_path))
       IN  /\ new_state \notin DOMAIN visited
           /\ frontier' = heappush(frontier, n)
           /\ log' = History(log \o <<Event("transition", <<name, node.state>>),
                                      Event("cost", new_path), Event("push", n)>>)
           /\ IF Success(new_state)
              THEN idx' = idx /\ pc' = "returned" /\ result' = new_path
              ELSE /\ result' = result
                   /\ IF idx < Len(transitions)
                      THEN idx' = idx + 1 /\ pc' = "expand"
                      ELSE idx' = 0 /\ pc' = "loop"
    /\ UNCHANGED <<visited, node, calls, first, inputVars, exVars>>

\* lines 99-103: one step of the for loop, new_state not in visited
Push ==
    /\ pc = "expand"
    /\ LET name == transitions[idx].name
           new_state == Transition(transitions[idx].fn, node.state)
           new_path == NewPath(node.path, name)
           n == heapnode(new_state, new_path, Cost(new_path))
       IN  /\ new_state \notin DOMAIN visited
           /\ frontier' = heappush(frontier, n)
           /\ log' = History(log \o <<Event("transition", <<name, node.state>>),
                                      Event("cost", new_path), Event("push", n)>>)
    /\ AfterStep
    /\ UNCHANGED <<visited, node, result, calls, first, inputVars, exVars>>

\* Faulty variant of Skip: cost is called before visited is looked at.
Skip_CostFirst ==
    /\ pc = "expand"
    /\ LET name == transitions[idx].name
           new_state == Transition(transitions[idx].fn, node.state)
       IN  /\ new_state \in DOMAIN visited
           /\ log' = History(log \o <<Event("transition", <<name, node.state>>),
                                      Event("cost", Append(node.path, name))>>)
    /\ IF idx < Len(transitions)
       THEN idx' = idx + 1 /\ pc' = "expand"
       ELSE idx' = 0 /\ pc' = "loop"
    /\ UNCHANGED <<visited, frontier, node, result, calls, first, inputVars,
                   exVars>>

\* lines 99-101: one step of the for loop, new_state in visited
Skip ==
    /\ pc = "expand"
    /\ LET name == transitions[idx].name
           new_state == Transition(transitions[idx].fn, node.state)
       IN  /\ new_state \in DOMAIN visited
           /\ log' = History(log \o <<Event("transition", <<name, node.state>>)>>)
    /\ AfterStep
    /\ UNCHANGED <<visited, frontier, node, result, calls, first, inputVars,
                   exVars>>

\* Faulty variant of Raise: an empty frontier ends in the empty path.
Raise_AsEmptyPath ==
    /\ pc = "loop"
    /\ Len(frontier) = 0
    /\ pc' = "returned"
    /\ result' = <<>>
    /\ log' = History(Append(log, Event("return", <<>>)))
    /\ UNCHANGED <<visited, frontier, node, idx, calls, first, inputVars,
                   exVars>>

\* lines 88, 105: the frontier is empty
Raise ==
    /\ pc = "loop"
    /\ Len(frontier) = 0
    /\ pc' = "raised"
    /\ log' = History(Append(log, Event("raise", <<>>)))
    /\ UNCHANGED <<visited, frontier, node, idx, result, calls, first,
                   inputVars, exVars>>

(***************************************************************************)
(* The inputs.                                                             *)
(***************************************************************************)
AbsFns ==
    {[op |-> "add", arg |-> k] : k \in AbsStates}
    \cup {[op |-> "const", arg |-> k] : k \in AbsStates}

AbsTables ==
    {<<[name |-> AbsNames[1], fn |-> f], [name |-> AbsNames[2], fn |-> g]>> :
        f \in AbsFns, g \in AbsFns}

AbsSuccess ==
    {[kind |-> "member", of |-> S] :
        S \in {T \in SUBSET AbsStates : Cardinality(T) <= 2}}

NameSet == {AbsNames[i] : i \in DOMAIN AbsNames}

AbsCosts ==
    {[kind |-> "sum", w |-> w] : w \in [NameSet -> {0, 1, HeavyWeight}]}
    \cup {[kind |-> k, w |-> w] :
            k \in {"max", "surcharge", "credit"}, w \in [NameSet -> {0, 1}]}

InitSearch ==
    /\ visited = NoVisited
    /\ frontier = NoFrontier
    /\ node = NoNode
    /\ idx = 0
    /\ pc = "idle"
    /\ result = <<>>
    /\ log = <<>>
    /\ calls = 0
    /\ first = NoFirst

InitEx ==
    /\ ex_origin = <<>>
    /\ ex_state = <<>>
    /\ ex_applied = <<>>

\* The abstract tables are closed under rotation of the states (add k keeps
\* its shape, const k becomes another const), so one initial state stands
\* for all of them.
Init ==
    /\ init_state = 0
    /\ transitions \in AbsTables
    /\ success \in AbsSuccess
    /\ cost \in AbsCosts
    /\ InitSearch
    /\ InitEx

Next == Call \/ Discard \/ Return \/ Visit \/ Push \/ Skip \/ Raise

Spec == Init /\ [][Next]_vars

\* the function runs to its end: no step of it waits for anything
FairSpec == Spec /\ WF_vars(Next)

\* two calls, one after the other
NextRepeat == Next \/ CallAgain

SpecRepeat == Init /\ [][NextRepeat]_vars

(***************************************************************************)
(* The example's inputs, and the transitions x and subswap on their own.   *)
(***************************************************************************)
ExLen == 3
ExDigits == {"0", "1", "2"}

X(qubit, low_radix) ==
    [op |-> "x", qubit |-> qubit, low_radix |-> low_radix]

Subswap(low_qubit, low_radix) ==
    [op |-> "subswap", low_qubit |-> low_qubit, low_radix |-> low_radix]

ExampleTransitions ==
    << [name |-> "x1_01", fn |-> X(1, 0)],
       [name |-> "x2_01", fn |-> X(2, 0)],
       [name |-> "x1_12", fn |-> X(1, 1)],
       [name |-> "x2_12", fn |-> X(2, 1)],
       [name |-> "subswap12_01", fn |-> Subswap(1, 0)],
       [name |-> "subswap12_12", fn |-> Subswap(1, 1)] >>

ExampleInit == << <<"0", "0", "0">>, <<"1", "1", "0">>, <<"2", "2", "0">> >>

ExampleSuccess ==
    [kind |-> "contains",
     of |-> {<<"0", "0", "0">>, <<"1", "1", "1">>, <<"2", "2", "2">>}]

ExampleCost == [kind |-> "example", w |-> <<>>]

ExStrings == [1 .. ExLen -> ExDigits]

ExStates == UNION {[1 .. n -> ExStrings] : n \in 1 .. MaxTuple}

\* fn may be applied now: at most twice, the second time the same transition
MayApply(fn) ==
    /\ Len(ex_applied) < 2
    /\ ex_applied # <<>> => ex_applied[1] = fn

\* x(ex_state, qubit, low_radix), through its partial
ApplyX(qubit, low_radix) ==
    /\ MayApply(X(qubit, low_radix))
    /\ ex_state' = Transition(X(qubit, low_radix), ex_state)
    /\ ex_applied' = Append(ex_applied, X(qubit, low_radix))
    /\ UNCHANGED <<ex_origin, inputVars, searchVars>>

\* subswap(ex_state, low_qubit, low_radix), through its partial
ApplySubswap(low_qubit, low_radix) ==
    /\ MayApply(Subswap(low_qubit, low_radix))
    /\ ex_state' = Transition(Subswap(low_qubit, low_radix), ex_state)
    /\ ex_applied' = Append(ex_applied, Subswap(low_qubit, low_radix))
    /\ UNCHANGED <<ex_origin, inputVars, searchVars>>

InitTransitions ==
    /\ init_state = ExampleInit
    /\ transitions = ExampleTransitions
    /\ success = ExampleSuccess
    /\ cost = ExampleCost
    /\ InitSearch
    /\ ex_origin \in ExStates
    /\ ex_state = ex_origin
    /\ ex_applied = <<>>

NextTransitions ==
    \/ \E qubit \in 0 .. (ExLen - 1) : \E low_radix \in {0, 1} :
           ApplyX(qubit, low_radix)
    \/ \E low_qubit \in 0 .. (ExLen - 2) : \E low_radix \in {0, 1} :
           ApplySubswap(low_qubit, low_radix)

SpecTransitions == InitTransitions /\ [][NextTransitions]_vars

(***************************************************************************)
(* The states of the example: the transitions of the example's table,      *)
(* applied in any order from the example's init_state.                     *)
(***************************************************************************)
InitWalk ==
    /\ init_state = ExampleInit
    /\ transitions = ExampleTransitions
    /\ success = ExampleSuccess
    /\ cost = ExampleCost
    /\ InitSearch
    /\ ex_origin = init_state
    /\ ex_state = init_state
    /\ ex_applied = <<>>

\* transitions[name](ex_state) for one name of the table
ApplyTable ==
    /\ \E i \in DOMAIN transitions :
          /\ ex_state' = Transition(transitions[i].fn, ex_state)
          /\ ex_applied' = <<transitions[i].fn>>
    /\ UNCHANGED <<ex_origin, inputVars, searchVars>>

SpecWalk == InitWalk /\ [][ApplyTable]_vars

(***************************************************************************)
(* The example's call of state_search_via_dijkstras (line 125), and the    *)
(* same call with the table's x transitions alone.                         *)
(***************************************************************************)
XTransitions == SelectSeq(ExampleTransitions, LAMBDA t : t.fn.op = "x")

InitExample ==
    /\ init_state = ExampleInit
    /\ transitions \in {ExampleTransitions, XTransitions}
    /\ success = ExampleSuccess
    /\ cost = ExampleCost
    /\ InitSearch
    /\ InitEx

SpecExample == InitExample /\ [][Next]_vars /\ WF_vars(Next)

(***************************************************************************)
(* What the claims speak of.                                               *)
(***************************************************************************)
\* transitions[name]
Lookup(name) ==
    LET i == CHOOSE j \in DOMAIN transitions : transitions[j].name = name
    IN  transitions[i].fn

\* the state after the transitions named in path, applied in order
RECURSIVE ApplyPath(_, _)
ApplyPath(state, path) ==
    IF path = <<>> THEN state
    ELSE ApplyPath(Transition(Lookup(Head(path)), state), Tail(path))

TableNames == {transitions[i].name : i \in DOMAIN transitions}

\* the paths of at most n identifiers
PathsUpTo(n) == UNION {[1 .. k -> TableNames] : k \in 0 .. n}

Reaches(path) == Success(ApplyPath(init_state, path))

\* cost(p) <= cost(p + [t])
Monotone ==
    \A p \in PathsUpTo(MaxPathLen - 1) : \A t \in TableNames :
        Cost(p) <= Cost(Append(p, t))

\* cost(p) <= cost(q) implies cost(p + [t]) <= cost(q + [t])
OrderPreserving ==
    \A p \in PathsUpTo(MaxPathLen - 1) : \A q \in PathsUpTo(MaxPathLen - 1) :
        Cost(p) <= Cost(q) =>
            \A t \in TableNames : Cost(Append(p, t)) <= Cost(Append(q, t))

\* no success-reaching path (of the lengths considered) costs less
Cheapest(path) ==
    \A q \in PathsUpTo(MaxPathLen) : Reaches(q) => Cost(path) <= Cost(q)

Last(l) == l[Len(l)]

Terminated == pc \in {"returned", "raised"}

(***************************************************************************)
(* C1  Path validity: a returned path, applied to the initial state one    *)
(* transition after the other, ends in a state for which success is true,  *)
(* whatever the cost function.                                             *)
(***************************************************************************)
C1_PathValidity == pc = "returned" => Reaches(result)

\* a path of two or more steps returned under a cost that is not monotone
C1_Witness ==
    /\ pc = "returned"
    /\ Len(result) >= 2
    /\ ~Monotone

(***************************************************************************)
(* C2  Optimality under monotone cost, as claimed: for every monotone      *)
(* cost on whole paths the returned path is a cheapest success-reaching    *)
(* path.                                                                   *)
(***************************************************************************)
C2_OptimalIfMonotone ==
    pc = "returned" => (Cheapest(result) \/ ~Monotone)

(***************************************************************************)
(* C2, amended: for every cost that is monotone and order-preserving       *)
(* under extension (cost(p) <= cost(q) implies cost(p+[t]) <= cost(q+[t])) *)
(* the returned path is a cheapest success-reaching path; this covers      *)
(* costs that are not sums, such as the largest weight on the path.        *)
(***************************************************************************)
C2_OptimalIfOrderPreserving ==
    pc = "returned" => (Cheapest(result) \/ ~(Monotone /\ OrderPreserving))

\* a path returned under a largest-weight cost, with a dearer path to success
C2_Witness ==
    /\ pc = "returned"
    /\ cost.kind = "max"
    /\ Len(result) >= 2
    /\ Monotone /\ OrderPreserving
    /\ \E q \in PathsUpTo(MaxPathLen) : Reaches(q) /\ Cost(q) > Cost(result)

(***************************************************************************)
(* C3  With cost the sum of a non-negative weight per identifier, the      *)
(* returned path has the least total weight of all success-reaching paths, *)
(* also when a path of fewer steps and larger weight reaches success.      *)
(***************************************************************************)
C3_CheapestTotalWeight ==
    (pc = "returned" /\ cost.kind = "sum") =>
        \A q \in PathsUpTo(MaxPathLen) :
            Reaches(q) => SumCost(cost.w, result) <= SumCost(cost.w, q)

\* three steps of weight 1 returned where one step of weight 10 reaches success
C3_Witness ==
    /\ pc = "returned"
    /\ cost.kind = "sum"
    /\ Len(result) = 3
    /\ \A i \in 1 .. 3 : cost.w[result[i]] = 1
    /\ \E t \in TableNames : cost.w[t] = 10 /\ Reaches(<<t>>)

(***************************************************************************)
(* C4  Trivial success: when success(init_state) is true the search        *)
(* returns the empty path and never calls a transition: after the first    *)
(* node is pushed the only step possible is the return of the empty path.  *)
(***************************************************************************)
C4_TrivialSuccess ==
    (Success(init_state) /\ pc # "idle") =>
        /\ pc \in {"loop", "returned"}
        /\ CountEv(log, "transition") = 0
        /\ pc = "loop" => (ENABLED Return /\ ~ENABLED Raise)
        /\ pc = "returned" => result = <<>>

\* the empty path returned, under a cost that is not monotone
C4_Witness ==
    /\ Success(init_state)
    /\ pc = "returned"
    /\ result = <<>>
    /\ ~Monotone

(***************************************************************************)
(* C5  No solution: when no state reachable from init_state satisfies      *)
(* success, the search ends by raising: it does not run on for ever and    *)
(* it returns no path, the empty path included.                            *)
(***************************************************************************)
RECURSIVE Closure(_)
Closure(S) ==
    LET T == S \cup {Transition(transitions[i].fn, s) :
                        i \in DOMAIN transitions, s \in S}
    IN  IF T = S THEN S ELSE Closure(T)

NoSolution == \A s \in Closure({init_state}) : ~Success(s)

C5_NoSolutionRaises ==
    /\ [](NoSolution => pc # "returned")
    /\ NoSolution ~> (pc = "raised")

\* the search has raised after it went through three states or more
C5_Witness ==
    /\ NoSolution
    /\ pc = "raised"
    /\ Cardinality(DOMAIN visited) >= 3
    /\ CountEv(log, "discard") >= 1

(***************************************************************************)
(* C6  Deterministic result: every state of the search has one next step   *)
(* at most, and a second call with the same arguments goes through the     *)
(* same calls, pushes and pops as the first and ends as the first did:     *)
(* nothing of the first call's visited or frontier is seen by the second.  *)
(***************************************************************************)
EnabledSteps ==
    (IF ENABLED Call THEN 1 ELSE 0) + (IF ENABLED Discard THEN 1 ELSE 0)
    + (IF ENABLED Return THEN 1 ELSE 0) + (IF ENABLED Visit THEN 1 ELSE 0)
    + (IF ENABLED Push THEN 1 ELSE 0) + (IF ENABLED Skip THEN 1 ELSE 0)
    + (IF ENABLED Raise THEN 1 ELSE 0)

SameEvent(e, f) == e.ev = f.ev /\ e.arg = f.arg

C6_Deterministic ==
    /\ EnabledSteps <= 1
    /\ calls = 2 =>
        /\ Len(log) <= Len(first.log)
        /\ \A i \in DOMAIN log : SameEvent(log[i], first.log[i])
        /\ Terminated =>
            /\ pc = first.pc
            /\ result = first.result
            /\ Len(log) = Len(first.log)

\* the second call has returned, and another path of the same least cost exists
C6_Witness ==
    /\ calls = 2
    /\ pc = "returned"
    /\ Len(result) >= 2
    /\ Cheapest(result)
    /\ \E q \in PathsUpTo(MaxPathLen) :
          q # result /\ Reaches(q) /\ Cost(q) = Cost(result)

(***************************************************************************)
(* C7  Invocation counts: cost is called once for the empty path and once  *)
(* for each node pushed in the for loop, right before the push; success is *)
(* called once per distinct state, at the first pop of that state and      *)
(* never for a popped node that is discarded; each transition of the table *)
(* is called once per expanded state.                                      *)
(***************************************************************************)
\* the states whose for loop has started
Expanded ==
    {log[i].arg.state : i \in {j \in DOMAIN log :
        log[j].ev = "visit" /\ ~Success(log[j].arg.state)}}

\* the calls of the transition at position k of the table
TransitionCalls(k) ==
    {i \in DOMAIN log :
        log[i].ev = "transition" /\ log[i].arg[1] = transitions[k].name}

FirstPop(i) ==
    \A j \in 1 .. (i - 1) :
        log[j].ev = "pop" => log[j].arg.state # log[i].arg.state

C7_InvocationCounts ==
    /\ pc # "idle" => log[1] = Event("cost", <<>>)
    /\ \A i \in DOMAIN log :
        /\ log[i].ev = "cost" =>
              /\ i < Len(log)
              /\ log[i + 1].ev = "push"
              /\ log[i + 1].arg.path = log[i].arg
              /\ i > 1 => log[i - 1].ev = "transition"
        /\ log[i].ev = "push" => (i > 1 /\ log[i - 1].ev = "cost")
        /\ log[i].ev = "success" =>
              /\ i > 2
              /\ log[i - 2].ev = "pop"
              /\ log[i - 2].arg.state = log[i].arg
              /\ FirstPop(i - 2)
        /\ log[i].ev = "pop" =>
              /\ i + 1 <= Len(log)
              /\ IF FirstPop(i)
                 THEN i + 2 <= Len(log) /\ log[i + 2].ev = "success"
                 ELSE log[i + 1].ev = "discard"
    /\ CountEv(log, "cost") = CountEv(log, "push")
    /\ CountEv(log, "success") = Cardinality(DOMAIN visited)
    /\ CountEv(log, "success") = CountEv(log, "pop") - CountEv(log, "discard")
    /\ \A k \in DOMAIN transitions :
        /\ Cardinality(TransitionCalls(k)) =
              IF pc = "expand" /\ k >= idx
              THEN Cardinality(Expanded) - 1 ELSE Cardinality(Expanded)
        /\ \A i \in TransitionCalls(k) : \A j \in TransitionCalls(k) :
              i # j => log[i].arg[2] # log[j].arg[2]

\* a search has ended after a discard and a transition into a visited state
C7_Witness ==
    /\ Terminated
    /\ CountEv(log, "discard") >= 1
    /\ CountEv(log, "push") >= 4
    /\ CountEv(log, "transition") > CountEv(log, "cost")

(***************************************************************************)
(* C8  Self-inverse transitions: x and subswap, applied twice with the     *)
(* same qubit and low_radix, give back the state they started from.        *)
(***************************************************************************)
C8_SelfInverse ==
    (Len(ex_applied) = 2 /\ ex_applied[1] = ex_applied[2]) =>
        ex_state = ex_origin

\* a subswap that changed the state has been applied twice
C8_Witness ==
    /\ Len(ex_applied) = 2
    /\ ex_applied[1] = ex_applied[2]
    /\ ex_applied[1].op = "subswap"
    /\ Transition(ex_applied[1], ex_origin) # ex_origin
    /\ ex_state = ex_origin

(***************************************************************************)
(* C9  Visited-set finality: within one search no step removes an entry of *)
(* visited or changes its path, and a step adds an entry only for the      *)
(* state of the node it pops, with that node's path, at the first pop of   *)
(* a node with that state.                                                 *)
(***************************************************************************)
C9_VisitedFinal ==
    [][calls' = calls =>
        /\ \A s \in DOMAIN visited :
              s \in DOMAIN visited' /\ visited'[s] = visited[s]
        /\ \A s \in (DOMAIN visited') \ (DOMAIN visited) :
              /\ DOMAIN visited' = (DOMAIN visited) \cup {s}
              /\ Len(frontier') = Len(frontier) - 1
              /\ node'.state = s
              /\ visited'[s] = node'.path
              /\ \A i \in DOMAIN log :
                    log[i].ev = "pop" => log[i].arg.state # s]_vars

\* a node was discarded whose path is not the path visited keeps for its state
C9_Witness ==
    /\ log # <<>>
    /\ Last(log).ev = "discard"
    /\ node.state \in DOMAIN visited
    /\ visited[node.state] # node.path

(***************************************************************************)
(* C10  Justified discard: under a monotone cost, when a popped node is    *)
(* discarded the path visited keeps for its state costs no more than the   *)
(* discarded node.                                                         *)
(***************************************************************************)
C10_JustifiedDiscard ==
    (log # <<>> /\ Last(log).ev = "discard") =>
        (Cost(visited[node.state]) <= node.cost \/ ~Monotone)

\* a discarded node that cost more than the path kept for its state
C10_Witness ==
    /\ log # <<>>
    /\ Last(log).ev = "discard"
    /\ Monotone
    /\ Cost(visited[node.state]) < node.cost

(***************************************************************************)
(* C11  Stable tie-break, as claimed: of two nodes of equal cost that are  *)
(* in the frontier together, the one pushed first is popped first.         *)
(***************************************************************************)
\* where in the log the node n was pushed (a path is pushed once)
PushIndex(n) ==
    CHOOSE i \in DOMAIN log : log[i].ev = "push" /\ log[i].arg.path = n.path

PopIndexes == {i \in DOMAIN log : log[i].ev = "pop"}

C11_FirstPushedFirstPopped ==
    \A i \in PopIndexes : \A j \in PopIndexes :
        (/\ i < j
         /\ log[i].arg.cost = log[j].arg.cost
         /\ PushIndex(log[j].arg) < i) =>
            PushIndex(log[i].arg) < PushIndex(log[j].arg)

(***************************************************************************)
(* C12  No node is lost on a cost tie: the frontier holds exactly the      *)
(* nodes pushed and not yet popped, each as its own entry, also when two   *)
(* of them have the same cost and different states.                        *)
(***************************************************************************)
PushIndexes == {i \in DOMAIN log : log[i].ev = "push"}

Pushed == {log[i].arg : i \in PushIndexes}
Popped == {log[i].arg : i \in PopIndexes}
Pending == {frontier[i] : i \in DOMAIN frontier}

C12_NoNodeLost ==
    /\ Len(frontier) = Cardinality(PushIndexes) - Cardinality(PopIndexes)
    /\ Cardinality(Pending) = Len(frontier)
    /\ Popped \subseteq Pushed
    /\ Pending = Pushed \ Popped

\* two nodes of the same cost and different states are pending
C12_Witness ==
    \E i \in DOMAIN frontier : \E j \in DOMAIN frontier :
        /\ frontier[i].cost = frontier[j].cost
        /\ frontier[i].state # frontier[j].state

(***************************************************************************)
(* C13  Frontier node lifecycle, as claimed: no node is pushed for a state *)
(* that has a node pending in the frontier or an entry in visited.         *)
(***************************************************************************)
\* the state of the node pushed at i was pending or visited right before i
KnownBefore(i) ==
    \/ \E j \in 1 .. (i - 1) :
          log[j].ev = "visit" /\ log[j].arg.state = log[i].arg.state
    \/ \E j \in 1 .. (i - 1) :
          /\ log[j].ev = "push"
          /\ log[j].arg.state = log[i].arg.state
          /\ ~\E k \in (j + 1) .. (i - 1) :
                log[k].ev = "pop" /\ log[k].arg = log[j].arg

C13_OneNodePerState == \A i \in PushIndexes : ~KnownBefore(i)

(***************************************************************************)
(* C13, amended: a node is pushed whenever a transition of an expanded     *)
(* state gives a state with no entry in visited, so no node is pushed for  *)
(* a state that has an entry in visited (a state with a node pending in    *)
(* the frontier may get a second node); a node leaves the frontier exactly *)
(* when it is popped.                                                      *)
(***************************************************************************)
C13_NodeLifecycle ==
    [][calls' = calls =>
        /\ \A n \in Pending' \ Pending :
              /\ pc = "expand"
              /\ n.state \notin DOMAIN visited
              /\ n.state = Transition(transitions[idx].fn, node.state)
              /\ Last(log').ev = "push"
              /\ Last(log').arg = n
        /\ \A n \in Pending \ Pending' :
              /\ pc = "loop"
              /\ n = node'
              /\ Len(log') > Len(log)
              /\ log'[Len(log) + 1].ev = "pop"
              /\ log'[Len(log) + 1].arg = n
        /\ (Len(log') > Len(log) /\ log'[Len(log) + 1].ev = "pop") =>
              Pending' = Pending \ {node'}]_vars

\* a second node is pending for a state that has a node pending
C13_Witness ==
    \E i \in DOMAIN frontier : \E j \in DOMAIN frontier :
        /\ i # j
        /\ frontier[i].state = frontier[j].state
        /\ Last(log).ev = "push"

(***************************************************************************)
(* C14  Each state is expanded at most once in a search: the for loop      *)
(* over the table starts once per state at most, however many nodes of     *)
(* that state are pushed and popped.                                       *)
(***************************************************************************)
\* where the for loop starts: a recorded node whose state is not a success
ExpansionStarts ==
    {i \in DOMAIN log : log[i].ev = "visit" /\ ~Success(log[i].arg.state)}

C14_ExpandedOnce ==
    \A i \in ExpansionStarts : \A j \in ExpansionStarts :
        i # j => log[i].arg.state # log[j].arg.state

\* a state that was pushed and popped twice and expanded once
C14_Witness ==
    /\ Terminated
    /\ \E i \in ExpansionStarts :
          Cardinality({j \in PopIndexes :
              log[j].arg.state = log[i].arg.state}) >= 2

(***************************************************************************)
(* C15  Success is decided at pop time and ends the search at once: the    *)
(* path returned is that of the first popped node whose state is a         *)
(* success, no node pending costs less, its state is never expanded, and   *)
(* after the return no step follows; the push of a success state leaves    *)
(* the search running.                                                     *)
(***************************************************************************)
C15_SuccessAtPop ==
    /\ pc = "returned" =>
        /\ Len(log) >= 4
        /\ log[Len(log) - 3].ev = "pop"
        /\ log[Len(log) - 3].arg = node
        /\ Last(log).ev = "return"
        /\ Last(log).arg = result
        /\ result = node.path
        /\ Success(node.state)
        /\ \A i \in PopIndexes :
              Success(log[i].arg.state) => i = Len(log) - 3
        /\ \A i \in DOMAIN frontier : ~(frontier[i].cost < node.cost)
        /\ \A i \in DOMAIN log :
              log[i].ev = "transition" => log[i].arg[2] # node.state
        /\ ~ENABLED Next
    /\ (log # <<>> /\ Last(log).ev = "push") => pc \in {"loop", "expand"}

\* a success state was pushed, a cheaper node was popped after that push,
\* and the search has returned
C15_Witness ==
    /\ pc = "returned"
    /\ \E i \in PushIndexes : \E j \in PopIndexes :
          /\ Success(log[i].arg.state)
          /\ i < j
          /\ log[j].arg.cost < log[i].arg.cost
          /\ ~Success(log[j].arg.state)

(***************************************************************************)
(* C16  Node well-formedness: every node of the frontier has the cost of   *)
(* its path and the state its path leads to from init_state; every entry   *)
(* of visited has a path that leads to its state; the path of a pushed     *)
(* node is the path visited keeps for the expanded state with one          *)
(* identifier appended.                                                    *)
(***************************************************************************)
Front(path) == SubSeq(path, 1, Len(path) - 1)

C16_WellFormed ==
    /\ \A i \in DOMAIN frontier :
        LET n == frontier[i] IN
        /\ n.cost = CostOf(cost, n.path)
        /\ n.state = ApplyPath(init_state, n.path)
        /\ n.path # <<>> =>
              LET parent == ApplyPath(init_state, Front(n.path)) IN
              /\ parent \in DOMAIN visited
              /\ visited[parent] = Front(n.path)
              /\ Last(n.path) \in TableNames
    /\ \A s \in DOMAIN visited : s = ApplyPath(init_state, visited[s])

\* nodes of two and more steps are pending, one for a state already visited
C16_Witness ==
    /\ Cardinality(DOMAIN visited) >= 2
    /\ \E i \in DOMAIN frontier :
          /\ Len(frontier[i].path) >= 2
          /\ frontier[i].state \in DOMAIN visited
          /\ frontier[i].cost # 0

(***************************************************************************)
(* C17  The example's transitions keep the shape of a state: x and subswap *)
(* give as many strings as they get, each as long as before; the six       *)
(* transitions of the table keep the digit at position 0; every state      *)
(* reachable from the example's init_state has three strings of length     *)
(* three with first digits 0, 1 and 2.                                     *)
(***************************************************************************)
SameShape(s, t) ==
    /\ Len(s) = Len(t)
    /\ \A i \in DOMAIN s : Len(s[i]) = Len(t[i])

\* the state and what is left of it without its last strings and digits
Cuts(state) ==
    {[i \in 1 .. n |-> SubSeq(state[i], 1, m)] :
        n \in 0 .. Len(state), m \in 1 .. ExLen}

C17_ShapeKept ==
    /\ \A s \in Cuts(ex_state) : \A q \in 0 .. (ExLen - 1) :
        \A low_radix \in {0, 1} :
            /\ (\A i \in DOMAIN s : q < Len(s[i])) =>
                  SameShape(x(s, q, low_radix), s)
            /\ (\A i \in DOMAIN s : q + 1 < Len(s[i])) =>
                  SameShape(subswap(s, q, low_radix), s)
    /\ \A i \in DOMAIN transitions :
          LET t == Transition(transitions[i].fn, ex_state)
          IN  \A k \in DOMAIN ex_state : t[k][1] = ex_state[k][1]
    /\ Len(ex_state) = 3
    /\ \A k \in DOMAIN ex_state : Len(ex_state[k]) = 3
    /\ <<ex_state[1][1], ex_state[2][1], ex_state[3][1]>> = <<"0", "1", "2">>

\* a subswap was applied last, and every string differs from the one the
\* walk started with
C17_Witness ==
    /\ ex_applied # <<>>
    /\ ex_applied[1].op = "subswap"
    /\ \A k \in DOMAIN ex_state : ex_state[k] # ex_origin[k]

(***************************************************************************)
(* C18  The example search is solvable: the call with the six-transition   *)
(* table ends by returning a path, never by raising, and the path applied  *)
(* to init_state gives a state that contains 000, 111 and 222.             *)
(***************************************************************************)
C18_ExampleSolved ==
    /\ [](transitions = ExampleTransitions => pc # "raised")
    /\ [](pc = "returned" =>
            \A s \in ExampleSuccess.of :
                \E k \in 1 .. 3 : ApplyPath(init_state, result)[k] = s)
    /\ (transitions = ExampleTransitions) ~> (pc = "returned")

\* the search with the six transitions has returned, with subswaps on the
\* path
C18_Witness ==
    /\ transitions = ExampleTransitions
    /\ pc = "returned"
    /\ Len(SelectSeq(result, StartsWithSubswap)) >= 1
    /\ Cost(result) = 11 * Len(SelectSeq(result, StartsWithSubswap))
                        + Len(SelectSeq(result, LAMBDA n : ~StartsWithSubswap(n)))

(***************************************************************************)
(* C19  Under a cost function that never decreases when a path is          *)
(* extended, the costs of the popped nodes never decrease over the search: *)
(* no node is popped with a cost below that of a node popped before it.    *)
(***************************************************************************)
PopCostsAscend ==
    \A i \in PopIndexes : \A j \in PopIndexes :
        i < j => log[i].arg.cost <= log[j].arg.cost

C19_PopCostsAscend == PopCostsAscend \/ ~Monotone

\* a finished search under a monotone cost: four pops and more, one of them
\* a discard, with a rise and a tie among the costs
C19_Witness ==
    /\ Terminated
    /\ Cardinality(PopIndexes) >= 4
    /\ CountEv(log, "discard") >= 1
    /\ \E i \in PopIndexes : \E j \in PopIndexes :
          i < j /\ log[i].arg.cost < log[j].arg.cost
    /\ \E i \in PopIndexes : \E j \in PopIndexes :
          i < j /\ log[i].arg.cost = log[j].arg.cost /\ log[i].arg.cost > 0
    /\ Monotone

(***************************************************************************)
(* C20  With finitely many reachable states the search ends, by a return   *)
(* or by the raise, whatever the cost function and also with cycles among  *)
(* the transitions; the number of pushes is at most 1 + (reachable states) *)
(* x (transitions).                                                        *)
(***************************************************************************)
PushBound == 1 + Cardinality(Closure({init_state})) * Len(transitions)

C20_Terminates ==
    /\ <>Terminated
    /\ [](CountEv(log, "push") <= PushBound)

\* a search that ended under a cost that decreases along a path, in a table
\* where the initial state is reached again, every reachable state expanded
C20_Witness ==
    /\ Terminated
    /\ ~Monotone
    /\ \E i \in DOMAIN log :
          /\ log[i].ev = "transition"
          /\ Transition(Lookup(log[i].arg[1]), log[i].arg[2]) = init_state
    /\ Cardinality(Closure({init_state})) >= 3
    /\ Cardinality(ExpansionStarts) = Cardinality(Closure({init_state}))

====
